---- MODULE Spec2Model ----
(***************************************************************************)
(* Model of pyinterpret/data/dataset.py: the DataSet object (construction, *)
(* column access, percentile grids, sampling).                             *)
(*                                                                         *)
(* Conventions.  Row positions are 0-based as in numpy; the p-th row of a  *)
(* table is values[p + 1].  None is modelled by the empty tuple.  Numbers  *)
(* that are fractions in the program are kept as scaled integers; the      *)
(* scale is stated at each definition.                                     *)
(***************************************************************************)
EXTENDS Integers, Sequences, FiniteSets, TLC

\* ------------------------------------------------------------------ bounds
MaxRows == 2
MaxDim == 2
MaxRes == 2
MaxFids == 2
MaxSamples == 2
MaxPerBin == 2
MaxBins == 4

\* cell values of the input data
Vals == {0, 1}

None == << >>

\* a label written by __setitem__ that is not a feature id of any store
OtherKeys == {50}
\* labels requested from generate_grid that no store has
AbsentIds == {98, 99}

VARIABLES n_rows, dim, feature_ids, index, data, result

vars == << n_rows, dim, feature_ids, index, data, result >>

\* ----------------------------------------------------------------- helpers
Range(s) == { s[k] : k \in 1..Len(s) }

SeqsUpTo(S, m) == UNION { [1..k -> S] : k \in 0..m }

RECURSIVE SumSeq(_)
SumSeq(s) == IF s = << >> THEN 0 ELSE s[1] + SumSeq(Tail(s))

\* range(n)
PyRange(n) == [k \in 1..n |-> k - 1]

\* the value returned by a call that has not been made / has been consumed
NoResult == [op |-> "none", status |-> "ok"]

\* pandas.DataFrame(values, columns=..., index=...)
DataFrame(values, columns, rowlabels) ==
  [columns |-> columns, index |-> rowlabels, values |-> values]

NoFrame == DataFrame(<< >>, << >>, << >>)

\* ------------------------------------------------------------ construction
\* the inputs of DataSet(data, feature_names, index), by kind of data
Matrices == UNION { [1..n -> [1..d -> Vals]] : n \in 1..MaxRows, d \in 1..MaxDim }

Vectors == UNION { [1..n -> Vals] : n \in 1..MaxRows }

Input(type, shape, values, columns, rowlabels, feature_names, ix) ==
  [type |-> type, shape |-> shape, values |-> values, columns |-> columns,
   rowlabels |-> rowlabels, feature_names |-> feature_names, index |-> ix]

\* a 2-D numpy array with the default row names
ArrayInputs ==
  { Input("ndarray", << Len(v), Len(v[1]) >>, v, None, None, None, None) :
      v \in Matrices }

\* a 2-D numpy array with the row names n-1, ..., 0 passed as index
IndexedInputs ==
  { Input("ndarray", << Len(v), Len(v[1]) >>, v, None, None, None,
          [k \in 1..Len(v) |-> Len(v) - k]) :
      v \in Matrices }

\* a 1-D numpy array
VectorInputs ==
  { Input("ndarray", << Len(v) >>, v, None, None, None, None) : v \in Vectors }

\* a numpy array of 3 or more dimensions (its cells are never read)
DeepInputs ==
  { Input("ndarray", sh, << >>, None, None, None, None) :
      sh \in { << 2, 3, 4 >>, << 1, 1, 1, 1 >> } }

\* a pandas DataFrame with its own column and row labels
FrameInputs ==
  { Input("DataFrame", << Len(v), Len(v[1]) >>, v,
          [k \in 1..Len(v[1]) |-> 9 + k], [k \in 1..Len(v) |-> 19 + k], None, None) :
      v \in Matrices }

\* something that is neither a numpy array nor a DataFrame
OtherInputs ==
  { Input("list", << Len(v) >>, v, None, None, None, None) : v \in Vectors }

\* data[:, np.newaxis]
NewAxis(v) == [k \in 1..Len(v) |-> << v[k] >>]

\* InitError with the built-in ValueError raised for 3 or more dimensions
InitErrorAsValueError(inp) ==
  IF inp.type \notin { "ndarray", "DataFrame" } THEN "DataSetError"
  ELSE IF Len(inp.shape) >= 3 THEN "ValueError"
  ELSE "ok"

\* the exception DataSet.__init__ raises for inp, or "ok"
InitError(inp) ==
  IF inp.type \notin { "ndarray", "DataFrame" } THEN "DataSetError"
  ELSE IF Len(inp.shape) >= 3 THEN "DataSetError"
  ELSE "ok"

InitValues(inp) == IF Len(inp.shape) = 1 THEN NewAxis(inp.values) ELSE inp.values

InitFeatureIds(inp) ==
  IF inp.feature_names # None THEN inp.feature_names
  ELSE IF inp.type = "DataFrame" THEN inp.columns
  ELSE PyRange(Len(InitValues(inp)[1]))

InitIndex(inp) ==
  IF inp.index # None THEN inp.index
  ELSE IF inp.type = "DataFrame" THEN inp.rowlabels
  ELSE PyRange(Len(InitValues(inp)))

Init ==
  /\ n_rows = 0
  /\ dim = 0
  /\ feature_ids = << >>
  /\ index = << >>
  /\ data = NoFrame
  /\ result = NoResult

Constructed == data # NoFrame

\* DataSet.__init__ on one input
ConstructFrom(inp) ==
     IF InitError(inp) # "ok"
     THEN /\ result' = [op |-> "Construct", status |-> InitError(inp),
                        type |-> inp.type, ndim |-> Len(inp.shape)]
          /\ UNCHANGED << n_rows, dim, feature_ids, index, data >>
     ELSE /\ n_rows' = Len(InitValues(inp))
          /\ dim' = Len(InitValues(inp)[1])
          /\ feature_ids' = InitFeatureIds(inp)
          /\ index' = InitIndex(inp)
          /\ data' = DataFrame(InitValues(inp), InitFeatureIds(inp), InitIndex(inp))
          /\ result' = [op |-> "Construct", status |-> "ok",
                        type |-> inp.type, ndim |-> Len(inp.shape)]

\* a caller constructs the store from one of the inputs
Construct(Inputs) ==
  /\ ~Constructed
  /\ result = NoResult
  /\ \E inp \in Inputs : ConstructFrom(inp)

\* ----------------------------------------------------------- column access
\* the place of label key in the sequence labels (labels are unique)
Locate(labels, key) == CHOOSE k \in 1..Len(labels) : labels[k] = key

\* DataFrame.__getitem__(key): the column named key, in row order
FrameColumn(frame, key) ==
  [r \in 1..Len(frame.values) |-> frame.values[r][Locate(frame.columns, key)]]

\* DataFrame.__setitem__(key, newval) with a scalar newval: every cell of the
\* column named key becomes newval; a key that names no column adds one at the end
FrameSetItem(frame, key, newval) ==
  IF key \in Range(frame.columns)
  THEN [frame EXCEPT !.values =
          [r \in 1..Len(frame.values) |->
             [frame.values[r] EXCEPT ![Locate(frame.columns, key)] = newval]]]
  ELSE [frame EXCEPT !.columns = Append(frame.columns, key),
                     !.values = [r \in 1..Len(frame.values) |->
                                   Append(frame.values[r], newval)]]

\* DataSet.__getitem__
GetItem(key) ==
  /\ result' = IF key \notin Range(feature_ids)
               THEN [op |-> "GetColumn", status |-> "KeyError", key |-> key]
               ELSE [op |-> "GetColumn", status |-> "ok", key |-> key,
                     value |-> FrameColumn(data, key)]
  /\ UNCHANGED << n_rows, dim, feature_ids, index, data >>

\* DataSet.__setitem__
SetItem(key, newval) ==
  /\ data' = FrameSetItem(data, key, newval)
  /\ UNCHANGED << n_rows, dim, feature_ids, index, result >>

\* the keys the callers use: the store's feature ids and one label outside them
Keys == Range(feature_ids) \cup OtherKeys

GetColumn ==
  /\ Constructed
  /\ result = NoResult
  /\ \E key \in Keys : GetItem(key)

SetColumn ==
  /\ Constructed
  /\ result = NoResult
  /\ \E key \in Keys, newval \in Vals : SetItem(key, newval)

\* ------------------------------------------------------------ generate_grid
\* A resolution is written as twice its value: an even number is an int, an
\* odd one a non-integer (3 is 1.5).  A grid_range bound is written in
\* thousandths (50 is .05).
IsInt(res2) == res2 % 2 = 0

\* x * 100, a percentage, for a bound in thousandths; the bounds used are
\* whole hundredths
ToPercent(x) == x \div 10

\* the line-98 test: every bound lies in [0, 1]
RangeOk(rng) == \A k \in 1..2 : rng[k] >= 0 /\ rng[k] <= 1000

\* the line-103 test, True when the call is rejected
ResolutionRejected(res2) == (~IsInt(res2)) /\ res2 > 0

\* MissingFeatures stopping at the first absent id
MissingFeaturesFirst(fids, present) ==
  LET absent == { k \in 1..Len(fids) : fids[k] \notin present }
  IN  IF absent = { } THEN << >>
      ELSE << fids[CHOOSE k \in absent : \A j \in absent : k <= j] >>

\* the requested ids that are not feature ids, in request order (lines 108-111)
RECURSIVE MissingFeatures(_, _)
MissingFeatures(fids, present) ==
  IF fids = << >> THEN << >>
  ELSE (IF fids[1] \notin present THEN << fids[1] >> ELSE << >>)
       \o MissingFeatures(Tail(fids), present)

\* the number of targets np.linspace makes of num: an int is used as it is; a
\* non-integer is refused (TypeError) or truncated toward zero, by numpy version
LinspaceNums(res2) ==
  IF IsInt(res2) THEN { [refused |-> FALSE, num |-> res2 \div 2] }
  ELSE { [refused |-> TRUE, num |-> 0],
         [refused |-> FALSE,
          num |-> IF res2 > 0 THEN res2 \div 2 ELSE -((-res2) \div 2)] }

\* the scale of the targets and of the grid cells for num targets
TargetScale(num) == IF num > 1 THEN num - 1 ELSE 1

\* np.linspace(lo, hi, num): the k-th target (k = 0..num-1), times TargetScale(num)
Linspace(lo, hi, num) ==
  [k \in 1..num |-> lo * TargetScale(num) + (k - 1) * (hi - lo)]

\* the k-th smallest cell of col, k = 1..Len(col)
Kth(col, k) ==
  CHOOSE v \in Range(col) :
    /\ Cardinality({ r \in 1..Len(col) : col[r] < v }) < k
    /\ Cardinality({ r \in 1..Len(col) : col[r] <= v }) >= k

\* Percentile interpolating between the cells in row order, without sorting
PercentileUnsorted(col, qs, scale) ==
  LET n == Len(col)
      den == 100 * scale
      lowpos == (qs * (n - 1)) \div den
      frac == (qs * (n - 1)) % den
      low == col[lowpos + 1]
      high == IF lowpos + 2 <= n THEN col[lowpos + 2] ELSE low
  IN  low * den + frac * (high - low)

\* np.percentile(col, q) with linear interpolation, times 100 * scale, for the
\* target q = qs / scale
Percentile(col, qs, scale) ==
  LET n == Len(col)
      den == 100 * scale
      lowpos == (qs * (n - 1)) \div den
      frac == (qs * (n - 1)) % den
      low == Kth(col, lowpos + 1)
      high == IF lowpos + 2 <= n THEN Kth(col, lowpos + 2) ELSE low
  IN  low * den + frac * (high - low)

\* lines 115-121: one row per requested id, one column per target; a cell is
\* the percentile times 100 * TargetScale(num)
Grid(fids, num, rng) ==
  LET scale == TargetScale(num)
      bins == CHOOSE b \in { Linspace(ToPercent(rng[1]), ToPercent(rng[2]), num) } : TRUE
  IN  [f \in 1..Len(fids) |->
         LET col == CHOOSE c \in { FrameColumn(data, fids[f]) } : TRUE
         IN  [k \in 1..num |-> Percentile(col, bins[k], scale)]]

GridResult(fids, res2, rng, lin) ==
  LET call == [op |-> "GenerateGrid", fids |-> fids, res2 |-> res2, range |-> rng]
      missing == MissingFeatures(fids, Range(feature_ids))
  IN  IF ~RangeOk(rng) THEN call @@ [status |-> "MalformedGridRangeError"]
      ELSE IF ResolutionRejected(res2) THEN call @@ [status |-> "MalformedGridRangeError"]
      ELSE IF missing # << >> THEN call @@ [status |-> "KeyError", message |-> missing]
      ELSE IF lin.refused THEN call @@ [status |-> "TypeError"]
      ELSE IF lin.num < 0 THEN call @@ [status |-> "ValueError"]
      ELSE call @@ [status |-> "ok", grid |-> Grid(fids, lin.num, rng)]

\* DataSet.generate_grid
generate_grid(fids, res2, rng) ==
  /\ \E lin \in LinspaceNums(res2) : result' = GridResult(fids, res2, rng, lin)
  /\ UNCHANGED << n_rows, dim, feature_ids, index, data >>

\* The arguments the callers pass.  A family of calls varies the arguments
\* it is about; the others keep the defaults of the signature (line 74).
DefaultResolution == 100
DefaultRange == << 50, 950 >>

FidLists ==
  SeqsUpTo(Range(feature_ids), MaxFids) \cup SeqsUpTo(Range(feature_ids) \cup AbsentIds, 2)

ShortFidLists == SeqsUpTo(Range(feature_ids) \cup { 99 }, 1)

BadRanges == { << -100, 500 >>, << 0, 1100 >> }

\* the resolutions that are not positive integers: -1, 0, -0.5, 1.5
BadResolutions == { -2, 0, -1, 3 }

FullRange == << 0, 1000 >>

ValidRanges == { DefaultRange, FullRange }

\* every list with every resolution over the whole range, and the short lists
\* with every resolution over each valid range
GridCalls ==
  { << fids, 2 * r, FullRange >> : fids \in FidLists, r \in 1..MaxRes }
  \cup { << fids, 2 * r, rng >> : fids \in ShortFidLists, r \in 1..MaxRes, rng \in ValidRanges }

BadResolutionCalls ==
  { << fids, res2, DefaultRange >> : fids \in ShortFidLists, res2 \in BadResolutions }

BadRangeCalls ==
  { << fids, 2 * DefaultResolution, rng >> : fids \in ShortFidLists, rng \in BadRanges }

GenerateGrid(Calls) ==
  /\ Constructed
  /\ result = NoResult
  /\ \E call \in Calls : generate_grid(call[1], call[2], call[3])

\* --------------------------------------------------------- _build_metastore
\* twice np.median of the cells of one column
Median2(col) ==
  LET n == Len(col)
  IN  IF n % 2 = 1 THEN 2 * Kth(col, (n + 1) \div 2)
      ELSE Kth(col, n \div 2) + Kth(col, n \div 2 + 1)

\* twice the row of column medians (line 128)
Medians2(frame) ==
  [c \in 1..Len(frame.columns) |-> Median2(FrameColumn(frame, frame.columns[c]))]

Dot(x, y) == SumSeq([c \in 1..Len(x) |-> x[c] * y[c]])

\* The cosine of row x to the median row m is Dot(x, m) / (|x| |m|), taken as 0
\* when a norm is 0 (sklearn normalises a zero vector to itself).  Rows are
\* compared by Dot(x, m2) / |x|, which orders them as the cosine does because
\* m2 = 2 m is the same for every row.  CosNum is the numerator, CosDen2 the
\* square of the denominator.
CosNum(x, m2) == Dot(x, m2)

CosDen2(x) == IF Dot(x, x) = 0 THEN 1 ELSE Dot(x, x)

\* row x is strictly nearer the median row than row y (smaller cosine distance)
Nearer(x, y, m2) ==
  LET a == CosNum(x, m2)
      b == CosNum(y, m2)
  IN  IF a >= 0 /\ b < 0 THEN TRUE
      ELSE IF a < 0 /\ b >= 0 THEN FALSE
      ELSE IF a >= 0 THEN a * a * CosDen2(y) > b * b * CosDen2(x)
      ELSE a * a * CosDen2(y) < b * b * CosDen2(x)

SameDist(x, y, m2) == ~Nearer(x, y, m2) /\ ~Nearer(y, x, m2)

\* twice pd.Series(dists).rank(): ties get the average of their places (line 136)
Ranks2(values, m2) ==
  [r \in 1..Len(values) |->
     2 * Cardinality({ q \in 1..Len(values) : Nearer(values[q], values[r], m2) })
     + Cardinality({ q \in 1..Len(values) : SameDist(values[q], values[r], m2) })
     + 1]

MaxOf(s) == CHOOSE v \in Range(s) : \A w \in Range(s) : w <= v

\* p / q rounded to the nearest integer, a half going to the even neighbour
RoundHalfEven(p, q) ==
  LET f == p \div q
      rem == p % q
  IN  IF 2 * rem < q THEN f
      ELSE IF 2 * rem > q THEN f + 1
      ELSE IF f % 2 = 0 THEN f ELSE f + 1

\* 100 times round(x, 2) for x in ranks / ranks.max() (line 140)
RanksRounded(ranks2) ==
  [r \in 1..Len(ranks2) |-> RoundHalfEven(100 * ranks2[r], MaxOf(ranks2))]

\* _build_metastore: the entries generate_sample reads; round_to is
\* n_rows / float(bin_count), kept as the pair it is made of
BuildMetastore(bin_count) ==
  LET ranks2 == CHOOSE r \in { Ranks2(data.values, Medians2(data)) } : TRUE
  IN  [n_rows |-> Len(data.values),
       ranks2 |-> ranks2,
       ranks_rounded |-> RanksRounded(ranks2),
       round_to |-> << Len(data.values), bin_count >>]

\* reshape(1, self.dim) of the medians and the distances to them need the
\* table to have self.dim columns
MetastoreError == IF Len(data.columns) # dim THEN "ValueError" ELSE "ok"

\* ---------------------------------------------------------- generate_sample
\* (i * round_to) / n_rows is i / bin_count computed in double precision.  The
\* triples << n_rows, bin_count, i >> below are those, for n_rows <= 6 and
\* bin_count <= 8, where i / bin_count is a whole number of hundredths and the
\* double computed differs from the double of that number of hundredths.
InexactKeys ==
  { << 1, 5, 3 >>, << 2, 5, 3 >>, << 3, 5, 1 >>, << 3, 5, 2 >>, << 3, 5, 4 >>,
    << 4, 5, 3 >>, << 6, 5, 1 >>, << 6, 5, 2 >>, << 6, 5, 4 >> }

\* KeyMatches with the buckets numbered from 1: the key of bucket i is
\* (i + 1) / bin_count
KeyMatchesFromOne(h, i, meta) ==
  /\ 100 * (i + 1) = h * meta.round_to[2]
  /\ << meta.n_rows, meta.round_to[2], i + 1 >> \notin InexactKeys

\* data_distance_ranks == j for the rounded rank h (in hundredths), line 217
KeyMatches(h, i, meta) ==
  /\ 100 * i = h * meta.round_to[2]
  /\ << meta.n_rows, meta.round_to[2], i >> \notin InexactKeys

\* np.where(data_distance_ranks == j)[0]: the matching positions
BucketMembers(i, meta) ==
  { p \in 0..(meta.n_rows - 1) : KeyMatches(meta.ranks_rounded[p + 1], i, meta) }

\* idx.any(): some element of idx is not 0
AnyNonZero(idx) == \E p \in idx : p # 0

\* np.random.choice(population, size, replace): the possible draws
Choices(population, size, replace) ==
  { s \in [1..size -> population] :
      replace \/ \A a, b \in 1..size : a # b => s[a] # s[b] }

\* the draws of the loop of lines 215-220, bucket by bucket: a sequence with
\* one entry per bucket, << >> for a bucket that is skipped
RECURSIVE BucketDraws(_, _, _)
BucketDraws(i, meta, samples_per_bin) ==
  IF i = meta.round_to[2] THEN { << >> }
  ELSE LET idx == BucketMembers(i, meta)
           here == IF AnyNonZero(idx) THEN Choices(idx, samples_per_bin, TRUE)
                   ELSE { << >> }
       IN  { << d >> \o rest : d \in here,
                               rest \in BucketDraws(i + 1, meta, samples_per_bin) }

RECURSIVE Flatten(_)
Flatten(ss) == IF ss = << >> THEN << >> ELSE ss[1] \o Flatten(Tail(ss))

\* DataFrame.loc[labels]: the positions of the rows carrying the labels, or
\* "KeyError" when a label names no row
LocError(frame, labels) ==
  IF \A k \in 1..Len(labels) : labels[k] \in Range(frame.index) THEN "ok" ELSE "KeyError"

Loc(frame, labels) ==
  [k \in 1..Len(labels) |-> Locate(frame.index, labels[k]) - 1]

RowValues(frame, positions) ==
  [k \in 1..Len(positions) |-> frame.values[positions[k] + 1]]

\* pd.DataFrame(rows, columns=self.feature_ids) needs rows as wide as the ids
\* (an empty list of rows, as the stratified strategy may pass, has no width)
WidthError(frame) == IF Len(frame.columns) # Len(feature_ids) THEN "ValueError" ELSE "ok"

\* the table a sampling call returns: its column labels, the positions in the
\* store of the rows it holds, and their cells
Table(columns, positions) ==
  [columns |-> columns, rows |-> positions, values |-> RowValues(data, positions)]

SampleFull(call) ==
  call @@ [status |-> "ok", returns |-> "DataFrame",
           table |-> [columns |-> data.columns,
                      rows |-> PyRange(Len(data.values)),
                      values |-> data.values]]

SampleRandomChoice(call, idx) ==
  IF WidthError(data) # "ok"
  THEN call @@ [status |-> "ValueError", returns |-> "raise", drawn |-> idx]
  ELSE call @@ [status |-> "ok", returns |-> "DataFrame", drawn |-> idx,
                table |-> Table(feature_ids, Loc(data, idx))]

SampleSimilarityRanks(call, meta, draws) ==
  LET new_samples == Flatten(draws)
      buckets == [k \in 1..call.bin_count |->
                    [members |-> BucketMembers(k - 1, meta), drawn |-> draws[k]]]
      part == call @@ [ranks_rounded |-> meta.ranks_rounded, buckets |-> buckets]
  IN  IF LocError(data, new_samples) # "ok"
      THEN part @@ [status |-> "KeyError", returns |-> "raise"]
      ELSE part @@ [status |-> "ok", returns |-> "DataFrame",
                    table |-> Table(feature_ids, Loc(data, new_samples))]

\* DataSet.generate_sample
generate_sample(call) ==
  /\ IF ~call.sample THEN result' = SampleFull(call)
     ELSE IF call.strategy = "random-choice"
     THEN IF ~call.replace /\ call.n_samples_from_dataset > Len(index)
          THEN result' = call @@ [status |-> "ValueError", returns |-> "raise"]
          ELSE \E idx \in Choices(Range(index), call.n_samples_from_dataset, call.replace) :
                 result' = SampleRandomChoice(call, idx)
     ELSE IF call.strategy = "uniform-from-percentile"
     THEN result' = call @@ [status |-> "NotImplementedError", returns |-> "raise"]
     ELSE IF call.strategy = "uniform-over-similarity-ranks"
     THEN IF MetastoreError # "ok"
          THEN result' = call @@ [status |-> MetastoreError, returns |-> "raise"]
          ELSE \E metastore \in { BuildMetastore(call.bin_count) } :
                 \E draws \in BucketDraws(0, metastore, call.samples_per_bin) :
                   result' = SampleSimilarityRanks(call, metastore, draws)
     ELSE result' = call @@ [status |-> "ok", returns |-> "None"]
  /\ UNCHANGED << n_rows, dim, feature_ids, index, data >>

\* the arguments the callers pass; a parameter the call does not vary keeps
\* the default of the signature (lines 161-162)
DefaultSamples == 1000
DefaultPerBin == 10
DefaultBins == 50

SampleCall(sample, strategy, n, replace, samples_per_bin, bin_count) ==
  [op |-> "GenerateSample", sample |-> sample, strategy |-> strategy,
   n_samples_from_dataset |-> n, replace |-> replace,
   samples_per_bin |-> samples_per_bin, bin_count |-> bin_count]

Strategies ==
  { "random-choice", "uniform-from-percentile", "uniform-over-similarity-ranks",
    "kmeans" }

FullCalls ==
  { SampleCall(FALSE, st, DefaultSamples, TRUE, DefaultPerBin, DefaultBins) :
      st \in Strategies }

RandomCalls ==
  { SampleCall(TRUE, "random-choice", n, rep, DefaultPerBin, DefaultBins) :
      n \in 0..MaxSamples, rep \in BOOLEAN }

RankCalls ==
  { SampleCall(TRUE, "uniform-over-similarity-ranks", DefaultSamples, TRUE, spb, b) :
      spb \in 0..MaxPerBin, b \in 1..MaxBins }

OtherCalls ==
  { SampleCall(TRUE, st, DefaultSamples, TRUE, DefaultPerBin, DefaultBins) :
      st \in { "uniform-from-percentile", "kmeans" } }

GenerateSample(Calls) ==
  /\ Constructed
  /\ result = NoResult
  /\ \E call \in Calls : generate_sample(call)

\* the caller takes the value (or the exception) of the call just made
Return ==
  /\ result # NoResult
  /\ result' = NoResult
  /\ UNCHANGED << n_rows, dim, feature_ids, index, data >>

Next ==
  \/ Construct(ArrayInputs)
  \/ Construct(IndexedInputs)
  \/ Construct(VectorInputs)
  \/ Construct(DeepInputs)
  \/ Construct(FrameInputs)
  \/ Construct(OtherInputs)
  \/ GetColumn
  \/ SetColumn
  \/ GenerateGrid(GridCalls)
  \/ GenerateGrid(BadResolutionCalls)
  \/ GenerateGrid(BadRangeCalls)
  \/ GenerateSample(FullCalls)
  \/ GenerateSample(RandomCalls)
  \/ GenerateSample(RankCalls)
  \/ GenerateSample(OtherCalls)
  \/ Return

Spec == Init /\ [][Next]_vars

\* the constructor alone
NextConstruct ==
  \/ Construct(ArrayInputs)
  \/ Construct(IndexedInputs)
  \/ Construct(VectorInputs)
  \/ Construct(DeepInputs)
  \/ Construct(FrameInputs)
  \/ Construct(OtherInputs)
  \/ Return

SpecConstruct == Init /\ [][NextConstruct]_vars

\* the store and its grids; generate_grid reads no row name, so the stores are
\* those with the row names of their input
NextGrid ==
  \/ Construct(ArrayInputs)
  \/ Construct(VectorInputs)
  \/ Construct(FrameInputs)
  \/ GetColumn
  \/ SetColumn
  \/ GenerateGrid(GridCalls)
  \/ GenerateGrid(BadResolutionCalls)
  \/ GenerateGrid(BadRangeCalls)
  \/ Return

SpecGrid == Init /\ [][NextGrid]_vars

\* the store and its samples
NextSample ==
  \/ Construct(ArrayInputs)
  \/ Construct(IndexedInputs)
  \/ Construct(VectorInputs)
  \/ Construct(FrameInputs)
  \/ GetColumn
  \/ SetColumn
  \/ GenerateSample(FullCalls)
  \/ GenerateSample(RandomCalls)
  \/ GenerateSample(RankCalls)
  \/ GenerateSample(OtherCalls)
  \/ Return

SpecSample == Init /\ [][NextSample]_vars

\* ------------------------------------------------------------------ claims
StoreVars == << n_rows, dim, feature_ids, index, data >>

IsGrid == result.op = "GenerateGrid"

IsSample == result.op = "GenerateSample"

PositiveInt(res2) == IsInt(res2) /\ res2 > 0

AllPresent(fids) == \A k \in 1..Len(fids) : fids[k] \in Range(feature_ids)

\* C1: generate_grid fails with the grid-range error for every resolution that
\* is not a positive integer (0 and the negative integers among them), when the
\* range is valid and every requested id is a feature id.
C1_BadResolutionRejected ==
  (IsGrid /\ RangeOk(result.range) /\ AllPresent(result.fids)
     /\ ~PositiveInt(result.res2))
  => (result.status = "MalformedGridRangeError" /\ "grid" \notin DOMAIN result)

\* C2 as stated: the constructor fails with an error kind ShapeError, distinct
\* from DataSetError, for every array input of 3 or more dimensions.
C2_ShapeErrorKind ==
  (result.op = "Construct" /\ result.type = "ndarray" /\ result.ndim >= 3)
  => (result.status = "ShapeError" /\ result.status # "DataSetError")

\* C2 as amended: the constructor fails with DataSetError for every array input
\* of 3 or more dimensions, the kind it also raises for an input that is
\* neither an array nor a table; no store is built.
C2_DeepInputDataSetError ==
  (result.op = "Construct" /\ (result.ndim >= 3 \/ result.type = "list"))
  => (result.status = "DataSetError" /\ ~Constructed)

C2_Witness ==
  /\ result.op = "Construct"
  /\ result.type = "ndarray"
  /\ result.ndim >= 3
  /\ result.status = "DataSetError"

\* C3: generate_sample with sample=True and a strategy outside the supported
\* set fails; it never returns a table or None.
C3_UnknownStrategyFails ==
  (IsSample /\ result.sample
     /\ result.strategy \notin { "random-choice", "uniform-over-similarity-ranks",
                                 "uniform-from-percentile" })
  => result.returns = "raise"

IsRanks ==
  IsSample /\ result.sample /\ result.strategy = "uniform-over-similarity-ranks"

NonEmptyBuckets(r) == { k \in 1..Len(r.buckets) : r.buckets[k].members # { } }

\* C4: in the stratified strategy a bucket with at least one member (the
\* member may be position 0 alone) has exactly samples_per_bin draws, an empty
\* bucket has none, and the table has samples_per_bin rows per non-empty bucket.
C4_BucketDrawCounts ==
  (IsRanks /\ "buckets" \in DOMAIN result)
  => /\ \A k \in 1..Len(result.buckets) :
          Len(result.buckets[k].drawn) =
            IF result.buckets[k].members # { } THEN result.samples_per_bin ELSE 0
     /\ result.status = "ok" =>
          /\ Len(result.table.rows) =
               result.samples_per_bin * Cardinality(NonEmptyBuckets(result))
          /\ Len(result.table.rows) <= result.bin_count * result.samples_per_bin

\* C5: after any sequence of __setitem__ and __getitem__ calls,
\* generate_sample(sample=False) returns a table with n_rows rows whose columns
\* are exactly the feature ids.
C5_FullSampleShape ==
  (IsSample /\ ~result.sample)
  => /\ result.status = "ok"
     /\ Len(result.table.rows) = n_rows
     /\ Len(result.table.values) = n_rows
     /\ Range(result.table.columns) = Range(feature_ids)
     /\ Len(result.table.columns) = Len(feature_ids)

\* C6: the stratified strategy does not fail, and every row it returns is the
\* row at a position drawn from the members of a bucket, whatever the row
\* names of the store.  Stated for the stores whose table holds the feature
\* columns and no other.
C6_RowsFromOwnBucket ==
  (IsRanks /\ data.columns = feature_ids)
  => /\ result.status = "ok"
     /\ "buckets" \in DOMAIN result
     /\ result.table.rows = Flatten([k \in 1..Len(result.buckets) |->
                                       result.buckets[k].drawn])
     /\ \A k \in 1..Len(result.buckets) :
          Range(result.buckets[k].drawn) \subseteq result.buckets[k].members

\* C7: random-choice with replace=False and n_samples = k <= n_rows returns
\* exactly k rows, at pairwise distinct positions, those of the k drawn names.
C7_DistinctRows ==
  (IsSample /\ result.sample /\ result.strategy = "random-choice"
     /\ ~result.replace /\ result.n_samples_from_dataset <= n_rows)
  => /\ result.status = "ok"
     /\ Len(result.table.rows) = result.n_samples_from_dataset
     /\ \A a, b \in 1..Len(result.table.rows) :
          a # b => result.table.rows[a] # result.table.rows[b]
     /\ \A a \in 1..Len(result.table.rows) :
          index[result.table.rows[a] + 1] = result.drawn[a]

MinOf(s) == CHOOSE v \in Range(s) : \A w \in Range(s) : v <= w

\* the grid r is the one C8 describes for the table frame
GridAsClaimed(r, frame) ==
  LET num == r.res2 \div 2
      unit == 100 * TargetScale(num)
  IN  /\ r.status = "ok"
      /\ Len(r.grid) = Len(r.fids)
      /\ \A f \in 1..Len(r.fids) :
           \E col \in { FrameColumn(frame, r.fids[f]) }, row \in { r.grid[f] } :
             \E lowest \in { MinOf(col) * unit }, highest \in { MaxOf(col) * unit } :
               /\ Len(row) = num
               /\ \A k \in 1..(num - 1) : row[k] <= row[k + 1]
               /\ \A k \in 1..num : lowest <= row[k] /\ row[k] <= highest
               /\ r.range[1] = 0 => row[1] = lowest
               /\ (r.range[2] = 1000 /\ num >= 2) => row[num] = highest

\* C8: for a range 0 <= lo < hi <= 1, a positive integer resolution and ids that
\* are all feature ids, generate_grid returns one row per requested id, in the
\* order requested, each of resolution cells that do not decrease, lie within
\* the column's cells and start at its minimum for lo = 0 and end at its
\* maximum for hi = 1; the call leaves the store as it was.
C8_GridShapeAndOrder ==
  [][(result'.op = "GenerateGrid"
        /\ RangeOk(result'.range) /\ result'.range[1] < result'.range[2]
        /\ PositiveInt(result'.res2) /\ AllPresent(result'.fids))
     => (GridAsClaimed(result', data') /\ UNCHANGED StoreVars)]_vars

C8_Witness ==
  /\ IsGrid
  /\ result.status = "ok"
  /\ Len(result.fids) = 2
  /\ result.fids[1] # result.fids[2]
  /\ result.res2 = 4
  /\ result.grid[1][1] < result.grid[1][2]
  /\ result.grid[2][1] = result.grid[2][2]

\* C9: with a valid range and resolution and some requested id that is not a
\* feature id, generate_grid raises KeyError, returns no grid, and the message
\* lists the absent ids, each as often as requested, and no present one.
C9_MissingFeaturesListed ==
  (IsGrid /\ RangeOk(result.range) /\ PositiveInt(result.res2)
     /\ ~AllPresent(result.fids))
  => /\ result.status = "KeyError"
     /\ "grid" \notin DOMAIN result
     /\ Range(result.message) = Range(result.fids) \ Range(feature_ids)
     /\ \A id \in Range(result.message) :
          Cardinality({ k \in 1..Len(result.message) : result.message[k] = id })
          = Cardinality({ k \in 1..Len(result.fids) : result.fids[k] = id })

C9_Witness ==
  /\ IsGrid
  /\ result.status = "KeyError"
  /\ PositiveInt(result.res2)
  /\ Len(result.fids) = 2
  /\ result.message = << 98, 99 >>

\* C10: in the stratified strategy no position is a member of two buckets, a
\* member's rounded rank is i / bin_count < 1 for its bucket i, a row whose
\* rounded rank is 1 is a member of no bucket and is never drawn, and so the
\* buckets leave some row out.
C10_TopRankInNoBucket ==
  (IsRanks /\ "buckets" \in DOMAIN result)
  => /\ \A j, k \in 1..Len(result.buckets) :
          j # k => result.buckets[j].members \cap result.buckets[k].members = { }
     /\ \A k \in 1..Len(result.buckets) :
          /\ \A p \in result.buckets[k].members :
               /\ result.ranks_rounded[p + 1] * result.bin_count = 100 * (k - 1)
               /\ result.ranks_rounded[p + 1] < 100
          /\ \A p \in Range(result.buckets[k].drawn) :
               result.ranks_rounded[p + 1] # 100
     /\ \E p \in 0..(Len(result.ranks_rounded) - 1) :
          /\ result.ranks_rounded[p + 1] = 100
          /\ \A k \in 1..Len(result.buckets) : p \notin result.buckets[k].members

C10_Witness ==
  /\ IsRanks
  /\ "buckets" \in DOMAIN result
  /\ \E k \in 1..Len(result.buckets) :
       /\ result.buckets[k].members # { }
       /\ Len(result.buckets[k].drawn) = 2
  /\ \E p \in 1..Len(result.ranks_rounded) : result.ranks_rounded[p] = 100

====
